---------------------------- MODULE Spec2Model ----------------------------
(***************************************************************************)
(* Model of the Hambits r0tor rotator backend (src/hambits/hambits.c).    *)
(*                                                                         *)
(* Strings are sequences of one-character strings.  Angles (azimuth_t,    *)
(* elevation_t) are kept in hundredths of a degree, the resolution of the *)
(* wire format, so 45.50 degrees is 4550.                                 *)
(*                                                                         *)
(* The serial port (serial_flush, write_block, read_string) is the        *)
(* environment.  What it will do during one transaction is drawn when the *)
(* transaction starts: the write either fails at some attempt, or every   *)
(* write succeeds and the read times out a number of times and then       *)
(* delivers a reply.  A transaction stops at the first failed write and   *)
(* at the first read it accepts, so this family covers every behaviour of *)
(* the port a transaction can observe.                                    *)
(***************************************************************************)
EXTENDS Integers, Sequences, FiniteSets, TLC

(***************************************************************************)
(* Bounds of the model.                                                    *)
(***************************************************************************)
\* the port times out on at most this many consecutive reads of a transaction
MaxTimeouts == 6
\* the port fails a write at attempt 1..MaxWriteFailAt of a transaction
MaxWriteFailAt == 2
\* speeds passed to move are 1..MaxSpeed
MaxSpeed == 2

(***************************************************************************)
(* Program constants.                                                      *)
(***************************************************************************)
\* hambits_caps.retry
retry == 5
\* expected_return_length of the set command's reply
SET_REPLY_LEN == 2
\* expected_return_length of the getpos reply
GETPOS_REPLY_LEN == 15
\* get_position accepts a reply whose size is greater than this
GETPOS_MIN_SIZE == 8
\* the extremes move drives an axis to, in hundredths of a degree
EL_UP == 18000
EL_DOWN == 0
AZ_CCW == 0
AZ_CW == 36000
\* park's home position
PARK_AZ == 0
PARK_EL == 0

\* return codes, with the sign the code returns them with
RIG_OK == "RIG_OK"
RIG_EINVAL == "RIG_EINVAL"
NEG_RIG_EINVAL == "-RIG_EINVAL"
RIG_ETIMEOUT == "RIG_ETIMEOUT"
\* what write_block returns when the write fails
NEG_RIG_EIO == "-RIG_EIO"

\* the directions of move; ROT_MOVE_OTHER stands for every other integer
ROT_MOVE_UP == "ROT_MOVE_UP"
ROT_MOVE_DOWN == "ROT_MOVE_DOWN"
ROT_MOVE_CCW == "ROT_MOVE_CCW"
ROT_MOVE_CW == "ROT_MOVE_CW"
ROT_MOVE_OTHER == "ROT_MOVE_OTHER"
Directions == {ROT_MOVE_UP, ROT_MOVE_DOWN, ROT_MOVE_CCW, ROT_MOVE_CW, ROT_MOVE_OTHER}

\* a null pointer (cmdstr, data)
NULL == "NULL"

(***************************************************************************)
(* Strings.                                                                *)
(***************************************************************************)
DigitChars == <<"0", "1", "2", "3", "4", "5", "6", "7", "8", "9">>

DigitChar(d) == DigitChars[d + 1]

IsDigit(c) == \E d \in 0..9 : DigitChars[d + 1] = c

DigitVal(c) == CHOOSE d \in 0..9 : DigitChars[d + 1] = c

IsSpace(c) == c \in {" ", "\n", "\t", "\r"}

\* the character at index i of a buffer that was zeroed before it was
\* filled: the terminating NUL after the last character read
CharAt(s, i) == IF i >= 1 /\ i <= Len(s) THEN s[i] ELSE "NUL"

RECURSIVE DecimalDigits(_)
\* the decimal digits of n >= 0, without padding
DecimalDigits(n) ==
    IF n < 10 THEN <<DigitChar(n)>>
    ELSE Append(DecimalDigits(n \div 10), DigitChar(n % 10))

RECURSIVE ZeroPad(_, _)
\* printf's 0 flag: pad on the left with '0' up to the minimum field width
ZeroPad(s, width) ==
    IF Len(s) >= width THEN s ELSE ZeroPad(<<"0">> \o s, width)

\* printf("%03.2f", v) for v >= 0 in hundredths: precision 2, and a minimum
\* field width of 3 that counts the whole field, point and decimals included
Printf_03_2f(v) ==
    ZeroPad(DecimalDigits(v \div 100) \o <<".">>
            \o <<DigitChar((v % 100) \div 10), DigitChar(v % 10)>>, 3)

\* num_sprintf(cmd_str, "setaz%03.2f;setel%03.2f;", az, el)
SetCmd(a, e) ==
    <<"s", "e", "t", "a", "z">> \o Printf_03_2f(a) \o <<";">>
    \o <<"s", "e", "t", "e", "l">> \o Printf_03_2f(e) \o <<";">>

CMD_GETPOS == <<"g", "e", "t", "p", "o", "s", ";">>

CMD_STOP == <<"s", "t", "o", "p", ";">>

\* strstr(hay, needle) != NULL
Strstr(hay, needle) ==
    \E i \in 1..(Len(hay) - Len(needle) + 1) :
        SubSeq(hay, i, i + Len(needle) - 1) = needle

RECURSIVE SkipSpaces(_, _)
SkipSpaces(s, i) == IF IsSpace(CharAt(s, i)) THEN SkipSpaces(s, i + 1) ELSE i

RECURSIVE DigitsEnd(_, _)
\* the index of the first character at or after i that is no digit
DigitsEnd(s, i) == IF IsDigit(CharAt(s, i)) THEN DigitsEnd(s, i + 1) ELSE i

RECURSIVE DigitsValue(_, _, _)
\* the number the digits s[i..j-1] spell
DigitsValue(s, i, j) ==
    IF j <= i THEN 0 ELSE DigitsValue(s, i, j - 1) * 10 + DigitVal(s[j - 1])

\* strtof(s + start - 1, &pEnd): white space, an optional sign, digits, an
\* optional point and digits.  val is the value in hundredths (decimals past
\* the second are dropped), end the index pEnd points at; when no number is
\* there, val is 0 and pEnd is where the parse started.
Strtof(s, start) ==
    LET b == SkipSpaces(s, start)
        neg == CharAt(s, b) = "-"
        i0 == IF CharAt(s, b) \in {"-", "+"} THEN b + 1 ELSE b
        i1 == DigitsEnd(s, i0)
        hasPoint == CharAt(s, i1) = "."
        f0 == i1 + 1
        f1 == IF hasPoint THEN DigitsEnd(s, f0) ELSE f0
        nInt == i1 - i0
        nFrac == IF hasPoint THEN f1 - f0 ELSE 0
        tenths == IF nFrac >= 1 THEN DigitVal(s[f0]) ELSE 0
        hundredths == IF nFrac >= 2 THEN DigitVal(s[f0 + 1]) ELSE 0
        mag == DigitsValue(s, i0, i1) * 100 + tenths * 10 + hundredths
    IN  IF nInt + nFrac = 0
        THEN [val |-> 0, end |-> start]
        ELSE [val |-> IF neg THEN 0 - mag ELSE mag,
              end |-> IF hasPoint THEN f1 ELSE i1]

\* the conversion of read_string's int result to size_t (*data_len = ...):
\* a negative result wraps to a huge positive one.  The model keeps 30 bits
\* of the width, enough for every comparison the code makes.
SizeT(n) == n % (2 ^ 30)


(***************************************************************************)
(* Inputs: what callers pass and what the port can deliver.                *)
(***************************************************************************)
\* the (az, el) passed to set_position, in hundredths of a degree
PosArgs == { <<0, 0>>, <<4550, 9025>>, <<36000, 18000>> }

Speeds == 1..MaxSpeed

\* what the port can deliver for the set command
SetReplies ==
    { <<"1", "1">>, <<"1", "0">>, <<"0", "1">>, <<"0", "0">>, <<>>, <<"1">> }

\* what the port can deliver for getpos;
GetposReplies ==
    { <<"0", "4", "5", ".", "5", "0", ";", "0", "9", "0", ".", "2", "5", ";", "\n">>,
      <<"0", "1", "0", ".", "0", "0", ";", "0", "2", "0", ".", "0", "0", ";", "\n">>,
      <<"1", "0", ".", "0", ";", "2", "0", ".", "0">>,
      <<"0", "4", "5", ".", "5", "0", ";", "0">>,
      <<"0", "4", "5", ".", "5", "0", ";">>,
      <<>> }

\* read_string's result when nothing arrived in time: -RIG_ETIMEOUT
READ_TIMEOUT == 0 - 5

\* read_string's result when the port failed: -RIG_EIO
READ_EIO == 0 - 6

\* the negative results of read_string
ReadErrors == {READ_TIMEOUT, READ_EIO}

\* what the port does during one transaction that wants a reply out of
\* `replies`: the write of attempt wfail fails (the reads before it failed),
\* or no write fails, the first tmo reads fail and every later read
\* delivers reply
ReplyScripts(replies) ==
    { [wfail |-> w, tmo |-> w - 1, reply |-> <<>>] : w \in 1..MaxWriteFailAt }
    \cup
    { [wfail |-> 0, tmo |-> k, reply |-> r] : k \in 0..MaxTimeouts, r \in replies }

\* what the port does during one transaction that wants no reply
NoReplyScripts ==
    { [wfail |-> w, tmo |-> 0, reply |-> <<>>] : w \in 0..MaxWriteFailAt }

\* the last element of a non-empty sequence
Last(q) == q[Len(q)]

\* no transaction is running
NoScript == [wfail |-> 0, tmo |-> 0, reply |-> <<>>]

\* what return_str and return_str_size can hold when nothing was stored in
\* them: automatic variables without an initializer hold any value
Uninitialized ==
    { [str |-> <<>>, size |-> 0],
      [str |-> <<"1", "1">>, size |-> 2],
      [str |-> <<"0", "1", "0", ".", "0", "0", ";", "0", "2", "0", ".", "0", "0", ";">>,
       size |-> SizeT(0 - 1)] }

(***************************************************************************)
(* State.                                                                  *)
(***************************************************************************)
VARIABLES
    az, el,                 \* priv->az, priv->el: the current position
    target_az, target_el,   \* priv->target_az, priv->target_el
    op,                     \* the backend entry point called last
    fn,                     \* the function whose transaction is running
    pc,                     \* idle, or the step of hambits_transaction
    cmdstr, data,           \* hambits_transaction's cmdstr, and data != NULL
    expected_return_length,
    retry_read,
    return_value,           \* what the last hambits_transaction returned
    return_str,             \* the caller's reply buffer, NULL while nothing
    return_str_size,        \*   was stored in it, and the size read into it
    ret,                    \* what the entry point returned, NULL until it returns
    out_az, out_el,         \* the *az and *el this call's get_position stored
                            \*   (it stored them when gp_ret is RIG_OK)
    gp_ret,                 \* what this call's hambits_get_position returned
    arg_az, arg_el,         \* the arguments of the last hambits_set_position
    direction, speed,       \* the arguments of the last hambits_move
    port,                   \* what the port does during this transaction
    attempts,               \* serial_flush calls of this transaction
    reads,                  \* what the read_string calls of this call returned
    written,                \* the commands this call wrote to the port
    io,                     \* the port calls of this call, in order
    late,                   \* output of the device that is not at the port yet
    rx,                     \* input the port has buffered and nobody read
    stale,                  \* the last read took input that was buffered
    pre                     \* the position state when the entry point was called

vars ==
    << az, el, target_az, target_el, op, fn, pc, cmdstr, data,
       expected_return_length, retry_read, return_value, return_str,
       return_str_size, ret, out_az, out_el, gp_ret, arg_az, arg_el,
       direction, speed, port, attempts, reads, written, io, late, rx,
       stale, pre >>

privVars == << az, el, target_az, target_el >>

\* the parameters and locals of hambits_transaction, and the port's script
txVars ==
    << cmdstr, data, expected_return_length, retry_read, port, attempts >>

\* the caller's buffer and what was read into it
bufVars == << return_str, return_str_size, reads, io, stale >>

\* the device's output on its way, and the port's input buffer
devVars == << late, rx >>

PrivState ==
    [az |-> az, el |-> el, target_az |-> target_az, target_el |-> target_el]

\* hambits_init: the position state after construction
Init ==
    /\ az = 0 /\ el = 0
    /\ target_az = 0 /\ target_el = 0
    /\ op = "init" /\ fn = NULL /\ pc = "idle"
    /\ cmdstr = NULL /\ data = FALSE
    /\ expected_return_length = 0
    /\ retry_read = 0
    /\ return_value = NULL
    /\ return_str = NULL /\ return_str_size = 0
    /\ ret = RIG_OK
    /\ out_az = 0 /\ out_el = 0
    /\ gp_ret = NULL
    /\ arg_az = 0 /\ arg_el = 0
    /\ direction = NULL /\ speed = 0
    /\ port = NoScript
    /\ attempts = 0
    /\ reads = <<>>
    /\ written = <<>>
    /\ io = <<>>
    /\ late = <<>>
    /\ rx = <<>>
    /\ stale = FALSE
    /\ pre = [az |-> 0, el |-> 0, target_az |-> 0, target_el |-> 0]

(***************************************************************************)
(* hambits_transaction.                                                    *)
(***************************************************************************)
\* Transaction entering the attempt at its write, without the serial_flush
Transaction_NoFlush(f, cmd, wantData, len, s) ==
    /\ fn' = f
    /\ pc' = IF cmd # NULL THEN "write" ELSE "read"
    /\ cmdstr' = cmd
    /\ data' = wantData
    /\ expected_return_length' = len
    /\ retry_read' = 0
    /\ return_value' = NULL
    /\ port' = s
    /\ attempts' = 1
    /\ ret' = NULL

\* the call hambits_transaction(rot, cmd, wantData ? buf : NULL, ..., len)
\* made by function f, with the port behaving as script s
Transaction(f, cmd, wantData, len, s) ==
    /\ fn' = f
    /\ pc' = "flush"
    /\ cmdstr' = cmd
    /\ data' = wantData
    /\ expected_return_length' = len
    /\ retry_read' = 0
    /\ return_value' = NULL
    /\ port' = s
    /\ attempts' = 0
    /\ ret' = NULL

\* return rv; out of hambits_transaction
TransactionReturns(rv) ==
    /\ return_value' = rv
    /\ pc' = "return"

\* DataLenNegative on an int: the size_t of a negative int is a large number
DataLenNegative_Signed(data_len) == data_len >= 2 ^ 29

\* the test *data_len < 0 on the size_t the read's result was stored in
DataLenNegative(data_len) == data_len < 0

\* the test retry_read++ >= rot->state.rotport.retry
RetriesExhausted(n) == n >= retry

\* ReplyWanted reading an answer whether or not the caller gave a buffer
ReplyWanted_Always == TRUE

\* the test data != NULL: the caller passed a buffer for the reply
ReplyWanted == data

\* serial_flush(&rs->rotport), the start of an attempt
hambits_transaction_flush ==
    /\ pc = "flush"
    /\ attempts' = attempts + 1
    /\ io' = Append(io, "flush")
    /\ rx' = <<>>
    /\ IF cmdstr # NULL
       THEN pc' = "write" /\ return_value' = return_value
       ELSE IF ReplyWanted
            THEN pc' = "read" /\ return_value' = return_value
            ELSE TransactionReturns(RIG_OK)
    /\ UNCHANGED << privVars, op, fn, cmdstr, data, expected_return_length,
                    retry_read, port, return_str, return_str_size, reads,
                    ret, out_az, out_el, gp_ret, arg_az, arg_el, direction,
                    speed, written, late, stale, pre >>

\* what write_block returns at this attempt
WriteBlock == IF port.wfail = attempts THEN NEG_RIG_EIO ELSE RIG_OK

\* WriteFailed taking every result of write_block for a success
WriteFailed_Never(rv) == FALSE

\* the test return_value != RIG_OK after write_block
WriteFailed(rv) == rv # RIG_OK

\* write_block(&rs->rotport, cmdstr, strlen(cmdstr)) and the test of its result
hambits_transaction_write ==
    /\ pc = "write"
    /\ written' = IF WriteBlock = RIG_OK THEN Append(written, cmdstr)
                  ELSE written
    /\ io' = Append(io, IF WriteBlock = RIG_OK THEN "write"
                        ELSE "write_failed")
    /\ IF WriteFailed(WriteBlock)
       THEN TransactionReturns(WriteBlock)
       ELSE IF ReplyWanted
            THEN pc' = "read" /\ return_value' = return_value
            ELSE TransactionReturns(RIG_OK)
    /\ UNCHANGED << privVars, op, fn, txVars, return_str, return_str_size,
                    reads, ret, out_az, out_el, gp_ret, arg_az, arg_el,
                    direction, speed, devVars, stale, pre >>

\* the input at the port during this attempt's read: what is buffered, then
\* the device's answer to this attempt's command when it comes in time
PortInput == rx \o (IF attempts <= port.tmo THEN <<>> ELSE port.reply)

\* how much of input q a read_string of at most len characters that stops
\* after "\n" takes
ReadLength(q, len) ==
    LET m == IF Len(q) < len THEN Len(q) ELSE len
        stops == { i \in 1..m : q[i] = "\n" }
    IN  IF stops = {} THEN m
        ELSE CHOOSE i \in stops : \A j \in stops : i <= j

\* the characters read_string stores at this attempt
ReadData == SubSeq(PortInput, 1, ReadLength(PortInput, expected_return_length))

\* read_string's result at this attempt: a negative code when there is no
\* input before the timeout, or the number of characters read
ReadString(e) ==
    IF attempts <= port.tmo /\ rx = <<>> THEN e ELSE Len(ReadData)

\* memset(data, 0, BUFSIZE), read_string(...) and the test of *data_len
hambits_transaction_read ==
    /\ pc = "read"
    /\ \E e \in ReadErrors :
          LET n == ReadString(e)
              data_len == SizeT(n)
          IN  /\ reads' = Append(reads, n)
              /\ io' = Append(io, "read")
              /\ return_str' = IF n >= 0 THEN ReadData ELSE <<>>
              /\ rx' = SubSeq(PortInput, Len(ReadData) + 1, Len(PortInput))
              /\ stale' = (rx # <<>>)
              /\ return_str_size' = data_len
              /\ IF DataLenNegative(data_len)
                 THEN /\ retry_read' = retry_read + 1
                      /\ IF RetriesExhausted(retry_read)
                         THEN TransactionReturns(RIG_ETIMEOUT)
                         ELSE pc' = "flush" /\ return_value' = return_value
                 ELSE /\ retry_read' = retry_read
                      /\ TransactionReturns(RIG_OK)
    /\ UNCHANGED << privVars, op, fn, cmdstr, data, expected_return_length,
                    port, attempts, ret, out_az, out_el, gp_ret, arg_az,
                    arg_el, direction, speed, written, late, pre >>

(***************************************************************************)
(* The backend's entry points.                                             *)
(***************************************************************************)
\* the entry point `name` is called: nothing of the call before is left
Enter(name) ==
    /\ pc = "idle"
    /\ op' = name
    /\ written' = <<>>
    /\ pre' = PrivState
    /\ return_str' = NULL
    /\ return_str_size' = 0
    /\ reads' = <<>>
    /\ io' = <<>>
    /\ stale' = FALSE
    /\ UNCHANGED devVars
    /\ out_az' = 0
    /\ out_el' = 0
    /\ gp_ret' = NULL

\* the entry point returns rv; the locals of hambits_transaction are gone
Return(rv) ==
    /\ ret' = rv
    /\ pc' = "idle"
    /\ fn' = NULL
    /\ cmdstr' = NULL
    /\ data' = FALSE
    /\ expected_return_length' = 0
    /\ retry_read' = 0
    /\ port' = NoScript
    /\ attempts' = 0
    /\ UNCHANGED devVars

\* what the caller's buffer and its size hold now
Buffer ==
    IF return_str = NULL
    THEN Uninitialized
    ELSE {[str |-> return_str, size |-> return_str_size]}

\* SetPositionBody leaving the target position for after the transaction
SetPositionBody_TargetLater(a, e) ==
    /\ arg_az' = a
    /\ arg_el' = e
    /\ \E s \in ReplyScripts(SetReplies) :
          Transaction("set_position", SetCmd(a, e), TRUE, SET_REPLY_LEN, s)
    /\ UNCHANGED << az, el, target_az, target_el >>

\* hambits_set_position(rot, a, e) up to its transaction
SetPositionBody(a, e) ==
    /\ target_az' = a
    /\ target_el' = e
    /\ arg_az' = a
    /\ arg_el' = e
    /\ \E s \in ReplyScripts(SetReplies) :
          Transaction("set_position", SetCmd(a, e), TRUE, SET_REPLY_LEN, s)
    /\ UNCHANGED << az, el >>

\* SetPositionResult with the size compared against the expected length
SetPositionResult_SizeOffByOne(str, size) ==
    IF size > SET_REPLY_LEN /\ Strstr(str, <<"1", "1">>)
    THEN RIG_OK
    ELSE RIG_EINVAL

\* SetPositionResult looking for a single '1'
SetPositionResult_AnyOne(str, size) ==
    IF size > 0 /\ Strstr(str, <<"1">>) THEN RIG_OK ELSE RIG_EINVAL

\* the result of hambits_set_position, from what its buffer holds
SetPositionResult(str, size) ==
    IF size > 0 /\ Strstr(str, <<"1", "1">>) THEN RIG_OK ELSE RIG_EINVAL

hambits_set_position(a, e) ==
    /\ Enter("set_position")
    /\ SetPositionBody(a, e)
    /\ direction' = NULL
    /\ speed' = 0

\* hambits_set_position after its transaction; park, reset and move return
\* what it returns
hambits_set_position_return ==
    /\ pc = "return"
    /\ fn = "set_position"
    /\ \E b \in Buffer : Return(SetPositionResult(b.str, b.size))
    /\ UNCHANGED << privVars, op, return_value, bufVars, out_az, out_el,
                    gp_ret, arg_az, arg_el, direction, speed, written, pre >>

hambits_park ==
    /\ Enter("park")
    /\ SetPositionBody(PARK_AZ, PARK_EL)
    /\ direction' = NULL
    /\ speed' = 0

hambits_reset ==
    /\ Enter("reset")
    /\ SetPositionBody(PARK_AZ, PARK_EL)
    /\ direction' = NULL
    /\ speed' = 0

\* MoveTarget holding the axis at the current position instead of the target
MoveTarget_HoldsCurrent(d) ==
    CASE d = ROT_MOVE_UP -> [az |-> az, el |-> EL_UP]
      [] d = ROT_MOVE_DOWN -> [az |-> az, el |-> EL_DOWN]
      [] d = ROT_MOVE_CCW -> [az |-> AZ_CCW, el |-> el]
      [] d = ROT_MOVE_CW -> [az |-> AZ_CW, el |-> el]

\* the position hambits_move passes to hambits_set_position
MoveTarget(d) ==
    CASE d = ROT_MOVE_UP -> [az |-> target_az, el |-> EL_UP]
      [] d = ROT_MOVE_DOWN -> [az |-> target_az, el |-> EL_DOWN]
      [] d = ROT_MOVE_CCW -> [az |-> AZ_CCW, el |-> target_el]
      [] d = ROT_MOVE_CW -> [az |-> AZ_CW, el |-> target_el]

\* hambits_move leaving the switch at its default case and returning RIG_OK
hambits_move_DefaultBreaks(d, sp) ==
    /\ Enter("move")
    /\ direction' = d
    /\ speed' = sp
    /\ IF d \in {ROT_MOVE_UP, ROT_MOVE_DOWN, ROT_MOVE_CCW, ROT_MOVE_CW}
       THEN SetPositionBody(MoveTarget(d).az, MoveTarget(d).el)
       ELSE /\ Return(RIG_OK)
            /\ arg_az' = 0
            /\ arg_el' = 0
            /\ UNCHANGED << privVars, return_value >>

hambits_move(d, sp) ==
    /\ Enter("move")
    /\ direction' = d
    /\ speed' = sp
    /\ IF d \in {ROT_MOVE_UP, ROT_MOVE_DOWN, ROT_MOVE_CCW, ROT_MOVE_CW}
       THEN SetPositionBody(MoveTarget(d).az, MoveTarget(d).el)
       ELSE /\ Return(NEG_RIG_EINVAL)
            /\ arg_az' = 0
            /\ arg_el' = 0
            /\ UNCHANGED << privVars, return_value >>

\* hambits_get_position(rot, &az, &el) up to its transaction
GetPositionBody ==
    \E s \in ReplyScripts(GetposReplies) :
        Transaction("get_position", CMD_GETPOS, TRUE, GETPOS_REPLY_LEN, s)

\* GetPositionResult parsing the elevation at pEnd instead of pEnd + 1
GetPositionResult_NoSkip(str, size) ==
    IF size > GETPOS_MIN_SIZE
    THEN LET a == Strtof(str, 1)
             e == Strtof(str, a.end)
         IN  [rc |-> RIG_OK, az |-> a.val, el |-> e.val]
    ELSE [rc |-> RIG_EINVAL, az |-> 0, el |-> 0]

\* the result of hambits_get_position, from what its buffer holds: the code
\* returned, and the *az and *el it stores when it returns RIG_OK
GetPositionResult(str, size) ==
    IF size > GETPOS_MIN_SIZE
    THEN LET a == Strtof(str, 1)
             e == Strtof(str, a.end + 1)
         IN  [rc |-> RIG_OK, az |-> a.val, el |-> e.val]
    ELSE [rc |-> RIG_EINVAL, az |-> 0, el |-> 0]

hambits_get_position ==
    /\ Enter("get_position")
    /\ GetPositionBody
    /\ arg_az' = 0 /\ arg_el' = 0
    /\ direction' = NULL /\ speed' = 0
    /\ UNCHANGED privVars

\* hambits_get_position_return storing the position it read as the current one
hambits_get_position_return_StoresCurrent ==
    /\ pc = "return"
    /\ fn = "get_position"
    /\ op = "get_position"
    /\ \E b \in Buffer :
          LET r == GetPositionResult(b.str, b.size)
          IN  /\ out_az' = r.az
              /\ out_el' = r.el
              /\ gp_ret' = r.rc
              /\ az' = IF r.rc = RIG_OK THEN r.az ELSE az
              /\ el' = IF r.rc = RIG_OK THEN r.el ELSE el
              /\ Return(r.rc)
    /\ UNCHANGED << target_az, target_el, op, return_value, bufVars, arg_az,
                    arg_el, direction, speed, written, pre >>

\* hambits_get_position after its transaction, called by the application
hambits_get_position_return ==
    /\ pc = "return"
    /\ fn = "get_position"
    /\ op = "get_position"
    /\ \E b \in Buffer :
          LET r == GetPositionResult(b.str, b.size)
          IN  /\ out_az' = r.az
              /\ out_el' = r.el
              /\ gp_ret' = r.rc
              /\ Return(r.rc)
    /\ UNCHANGED << privVars, op, return_value, bufVars, arg_az, arg_el,
                    direction, speed, written, pre >>

\* hambits_stop up to its first transaction
hambits_stop ==
    /\ Enter("stop")
    /\ \E s \in NoReplyScripts : Transaction("stop", CMD_STOP, FALSE, 0, s)
    /\ arg_az' = 0 /\ arg_el' = 0
    /\ direction' = NULL /\ speed' = 0
    /\ UNCHANGED privVars

\* hambits_stop after the stop; transaction: return RIG_EINVAL, or call
\* hambits_get_position
hambits_stop_stopped ==
    /\ pc = "return"
    /\ fn = "stop"
    /\ IF return_value # RIG_OK
       THEN /\ Return(RIG_EINVAL)
            /\ return_value' = return_value
       ELSE GetPositionBody
    /\ UNCHANGED << privVars, op, bufVars, out_az, out_el, gp_ret, arg_az,
                    arg_el, direction, speed, written, devVars, pre >>

\* StopStores leaving the target position as it was
StopStores_CurrentOnly(r) ==
    IF r.rc = RIG_OK
    THEN [az |-> r.az, el |-> r.el, target_az |-> target_az,
          target_el |-> target_el, rc |-> RIG_OK]
    ELSE [az |-> az, el |-> el, target_az |-> target_az,
          target_el |-> target_el, rc |-> RIG_EINVAL]

\* what hambits_stop stores and returns once hambits_get_position returned r
StopStores(r) ==
    IF r.rc = RIG_OK
    THEN [az |-> r.az, el |-> r.el, target_az |-> r.az, target_el |-> r.el,
          rc |-> RIG_OK]
    ELSE [az |-> az, el |-> el, target_az |-> target_az,
          target_el |-> target_el, rc |-> RIG_EINVAL]

\* hambits_get_position returns into hambits_stop, and hambits_stop returns
hambits_stop_return ==
    /\ pc = "return"
    /\ fn = "get_position"
    /\ op = "stop"
    /\ \E b \in Buffer :
          LET r == GetPositionResult(b.str, b.size)
              st == StopStores(r)
          IN  /\ out_az' = r.az
              /\ out_el' = r.el
              /\ gp_ret' = r.rc
              /\ az' = st.az
              /\ el' = st.el
              /\ target_az' = st.target_az
              /\ target_el' = st.target_el
              /\ Return(st.rc)
    /\ UNCHANGED << op, return_value, bufVars, arg_az, arg_el, direction,
                    speed, written, pre >>

\* hambits_close up to its transaction
hambits_close ==
    /\ Enter("close")
    /\ \E s \in NoReplyScripts : Transaction("close", CMD_STOP, FALSE, 0, s)
    /\ arg_az' = 0 /\ arg_el' = 0
    /\ direction' = NULL /\ speed' = 0
    /\ UNCHANGED privVars

\* hambits_close returns what its transaction returned
hambits_close_return ==
    /\ pc = "return"
    /\ fn = "close"
    /\ Return(return_value)
    /\ UNCHANGED << privVars, op, return_value, bufVars, out_az, out_el,
                    gp_ret, arg_az, arg_el, direction, speed, written, pre >>

Next ==
    \/ \E p \in PosArgs : hambits_set_position(p[1], p[2])
    \/ hambits_set_position_return
    \/ hambits_get_position
    \/ hambits_get_position_return
    \/ hambits_stop
    \/ hambits_stop_stopped
    \/ hambits_stop_return
    \/ hambits_park
    \/ hambits_reset
    \/ \E d \in Directions, sp \in Speeds : hambits_move(d, sp)
    \/ hambits_close
    \/ hambits_close_return
    \/ hambits_transaction_flush
    \/ hambits_transaction_write
    \/ hambits_transaction_read

Spec == Init /\ [][Next]_vars

\* the cmdstr hambits_transaction can be given: NULL or a command
TransactionCommands == {NULL, CMD_STOP, CMD_GETPOS}

\* hambits_transaction called on a new rotator with any cmdstr, and with or
\* without a buffer for the reply
InitTransaction ==
    /\ az = 0 /\ el = 0
    /\ target_az = 0 /\ target_el = 0
    /\ op = "transaction" /\ fn = "transaction" /\ pc = "flush"
    /\ cmdstr \in TransactionCommands
    /\ data \in BOOLEAN
    /\ expected_return_length = (IF data THEN GETPOS_REPLY_LEN ELSE 0)
    /\ retry_read = 0
    /\ return_value = NULL
    /\ return_str = NULL /\ return_str_size = 0
    /\ ret = NULL
    /\ out_az = 0 /\ out_el = 0
    /\ gp_ret = NULL
    /\ arg_az = 0 /\ arg_el = 0
    /\ direction = NULL /\ speed = 0
    /\ port \in (IF data THEN ReplyScripts(GetposReplies) ELSE NoReplyScripts)
    /\ attempts = 0
    /\ reads = <<>>
    /\ written = <<>>
    /\ io = <<>>
    /\ late = <<>>
    /\ rx = <<>>
    /\ stale = FALSE
    /\ pre = [az |-> 0, el |-> 0, target_az |-> 0, target_el |-> 0]

\* the entry points, and hambits_transaction with every kind of argument
SpecTransaction == (Init \/ InitTransaction) /\ [][Next]_vars

\* a statement of hambits_transaction
TransactionStep ==
    \/ hambits_transaction_flush
    \/ hambits_transaction_write
    \/ hambits_transaction_read

\* hambits_transaction is sequential code whose port calls all return (a
\* read_string at the latest when the port's timeout expires): a transaction
\* that has a next statement executes it
FairSpecTransaction == SpecTransaction /\ WF_vars(TransactionStep)

(***************************************************************************)
(* The device at the other end of the port.                                *)
(***************************************************************************)
\* what the device returns for a command, by the command list: 1 for stop;
\* and for each of setaz and setel, the position for getpos;
DeviceAnswer(cmd) ==
    IF cmd = CMD_STOP THEN <<"1">>
    ELSE IF cmd = CMD_GETPOS
         THEN <<"0", "4", "5", ".", "5", "0", ";",
                "0", "9", "0", ".", "2", "5", ";", "\n">>
         ELSE <<"1", "1">>

\* hambits_transaction has returned and has not read an answer to the
\* command it wrote: it read nothing, or its read found no input
AnswerNotRead ==
    /\ pc = "return"
    /\ io # <<>>
    /\ \/ Last(io) = "write"
       \/ Last(io) = "read" /\ Last(reads) < 0

\* the device answers the command whose answer was not read
DeviceAnswers ==
    /\ AnswerNotRead
    /\ late = <<>>
    /\ rx = <<>>
    /\ late' = DeviceAnswer(cmdstr)
    /\ UNCHANGED << privVars, op, fn, pc, txVars, return_value, bufVars, ret,
                    out_az, out_el, gp_ret, arg_az, arg_el, direction, speed,
                    written, rx, pre >>

\* the output of the device arrives in the input buffer of the port
PortReceives ==
    /\ late # <<>>
    /\ rx' = rx \o late
    /\ late' = <<>>
    /\ UNCHANGED << privVars, op, fn, pc, txVars, return_value, bufVars, ret,
                    out_az, out_el, gp_ret, arg_az, arg_el, direction, speed,
                    written, pre >>

\* an application that sets, reads and stops, and the device
NextDevice ==
    \/ \E p \in PosArgs : hambits_set_position(p[1], p[2])
    \/ hambits_set_position_return
    \/ hambits_get_position
    \/ hambits_get_position_return
    \/ hambits_stop
    \/ hambits_stop_stopped
    \/ hambits_stop_return
    \/ TransactionStep
    \/ DeviceAnswers
    \/ PortReceives

\* these entry points on a port whose device answers when it wants to
SpecDevice == Init /\ [][NextDevice]_vars

(***************************************************************************)
(* Properties.                                                             *)
(***************************************************************************)
\* the entry points that run hambits_set_position
SetOps == {"set_position", "park", "reset", "move"}

\* the last read_string of this call delivered a reply (it did not fail)
ReplyRead == reads # <<>> /\ reads[Len(reads)] >= 0

\* this call's transaction read the reply r from the device
Received(r) == ReplyRead /\ return_str = r

REPLY_11 == <<"1", "1">>

\* the replies that do not accept both axes
RejectingReplies == { <<"1", "0">>, <<"0", "1">>, <<"0", "0">>, <<>> }

\* C1: a set_position(az, el) whose transaction read the reply "11" returns
\* RIG_OK and leaves the target position at (az, el)
C1_SetPositionAccepted ==
    (pc = "idle" /\ op \in SetOps /\ Received(REPLY_11))
        => (ret = RIG_OK /\ target_az = arg_az /\ target_el = arg_el)

C1_Witness ==
    /\ pc = "idle" /\ op = "set_position"
    /\ Received(REPLY_11)
    /\ arg_az = 4550 /\ arg_el = 9025
    /\ pre.target_az = 36000 /\ pre.target_el = 18000
    /\ ret = RIG_OK /\ target_az = 4550 /\ target_el = 9025

\* C2: a set_position whose transaction read "10", "01", "00" or zero bytes
\* returns RIG_EINVAL, whatever the arguments and the state before
C2_SetPositionRejected ==
    (pc = "idle" /\ op \in SetOps /\ ReplyRead /\ return_str \in RejectingReplies)
        => ret = RIG_EINVAL

C2_Witness ==
    /\ pc = "idle" /\ op = "set_position"
    /\ Received(<<"1", "0">>)
    /\ arg_az = 36000 /\ pre.az = 4550
    /\ ret = RIG_EINVAL

\* a field DDD.dd of the getpos reply
IsPosField(f) ==
    /\ Len(f) = 6
    /\ \A i \in {1, 2, 3, 5, 6} : IsDigit(f[i])
    /\ f[4] = "."

\* a reply of the form DDD.dd;DDD.dd; with or without a line end after it
IsPosReply(r) ==
    /\ Len(r) \in {14, 15}
    /\ IsPosField(SubSeq(r, 1, 6)) /\ r[7] = ";"
    /\ IsPosField(SubSeq(r, 8, 13)) /\ r[14] = ";"
    /\ Len(r) = 15 => r[15] = "\n"

\* the value of a field DDD.dd, in hundredths
PosFieldValue(f) ==
    DigitVal(f[1]) * 10000 + DigitVal(f[2]) * 1000 + DigitVal(f[3]) * 100
    + DigitVal(f[5]) * 10 + DigitVal(f[6])

\* C3: a get_position that read a reply DDD.dd;DDD.dd; returns RIG_OK with
\* *az the first field and *el the second; one that read a reply of fewer
\* than 9 characters returns RIG_EINVAL
C3_GetPositionParses ==
    (pc = "idle" /\ op \in {"get_position", "stop"} /\ ReplyRead)
        => /\ IsPosReply(return_str)
                => /\ ret = RIG_OK /\ gp_ret = RIG_OK
                   /\ out_az = PosFieldValue(SubSeq(return_str, 1, 6))
                   /\ out_el = PosFieldValue(SubSeq(return_str, 8, 13))
           /\ Len(return_str) < 9 => (ret = RIG_EINVAL /\ gp_ret = RIG_EINVAL)

C3_Witness ==
    /\ pc = "idle" /\ op = "get_position"
    /\ Received(<<"0", "4", "5", ".", "5", "0", ";",
                  "0", "9", "0", ".", "2", "5", ";", "\n">>)
    /\ ret = RIG_OK /\ out_az = 4550 /\ out_el = 9025

\* C4: a stop whose stop; was written and whose get_position returned RIG_OK
\* with (a, e) returns RIG_OK and leaves current = target = (a, e)
C4_StopStoresPosition ==
    (pc = "idle" /\ op = "stop" /\ written # <<>> /\ gp_ret = RIG_OK)
        => /\ ret = RIG_OK
           /\ az = out_az /\ el = out_el
           /\ target_az = out_az /\ target_el = out_el

C4_Witness ==
    /\ pc = "idle" /\ op = "stop"
    /\ written = <<CMD_STOP, CMD_GETPOS>>
    /\ gp_ret = RIG_OK /\ out_az = 1000 /\ out_el = 2000
    /\ pre.target_az = 36000 /\ pre.az = 4550
    /\ ret = RIG_OK
    /\ az = 1000 /\ el = 2000 /\ target_az = 1000 /\ target_el = 2000

\* a transaction that wants a reply has returned, none of its writes failed
\* and each of its reads that failed timed out
ReplyTransactionReturned ==
    /\ pc = "return" /\ data /\ port.wfail = 0
    /\ \A i \in 1..Len(reads) : reads[i] < 0 => reads[i] = READ_TIMEOUT

\* C5: with 5 retries, a transaction whose read fails on the first 4 attempts
\* and delivers a reply on the 5th returns RIG_OK with that reply
C5_FifthAttemptSucceeds ==
    (ReplyTransactionReturned /\ port.tmo = 4)
        => /\ return_value = RIG_OK
           /\ attempts = 5
           /\ reads[Len(reads)] = Len(port.reply)
           /\ return_str = port.reply
           /\ return_str_size = Len(port.reply)

\* C6: with 5 retries, a transaction whose read fails on each of 5 attempts
\* returns RIG_ETIMEOUT after the 5th
C6_FiveTimeoutsFail ==
    (ReplyTransactionReturned /\ port.tmo >= 5)
        => (return_value = RIG_ETIMEOUT /\ attempts = 5)

\* the position read of this call succeeded: getpos; was written and a reply
\* of more than 8 characters was read
PositionRead ==
    /\ written # <<>> /\ written[Len(written)] = CMD_GETPOS
    /\ ReplyRead /\ Len(return_str) > 8

\* the device accepted this call's command: it answered the set command with
\* "11", or the position read of a stop succeeded
Acknowledged ==
    \/ op \in SetOps /\ Received(REPLY_11)
    \/ op = "stop" /\ PositionRead

\* C7: the target position changes only in a step in which the device has
\* acknowledged the command; a set command that is rejected, times out or is
\* not written leaves it alone
C7_TargetOnlyWhenAcknowledged ==
    [][ (target_az' # target_az \/ target_el' # target_el) => Acknowledged' ]_vars

\* C8: the current position changes only in a step in which a position read
\* succeeded; a stop whose read timed out or whose transaction failed leaves
\* it alone
C8_CurrentOnlyWhenRead ==
    [][ (az' # az \/ el' # el) => PositionRead' ]_vars

\* the (az, el) the claim gives each direction of move, for the target (taz, tel)
MoveClaim(d, taz, tel) ==
    CASE d = ROT_MOVE_UP -> <<taz, 18000>>
      [] d = ROT_MOVE_DOWN -> <<taz, 0>>
      [] d = ROT_MOVE_CCW -> <<0, tel>>
      [] d = ROT_MOVE_CW -> <<36000, tel>>

\* C9: move in a direction, at any speed, runs the transaction of
\* set_position with one axis at the target the call found and the other at
\* its extreme: the same command, and nothing else written
C9_MoveIssuesSetPosition ==
    (op = "move" /\ direction # ROT_MOVE_OTHER)
        => LET p == MoveClaim(direction, pre.target_az, pre.target_el)
           IN  /\ arg_az = p[1] /\ arg_el = p[2]
               /\ pc # "idle" => cmdstr = SetCmd(p[1], p[2])
               /\ \A i \in 1..Len(written) : written[i] = SetCmd(p[1], p[2])
               /\ pc = "idle" => ret \in {RIG_OK, RIG_EINVAL}

C9_Witness ==
    /\ op = "move" /\ direction = ROT_MOVE_UP /\ speed = 2
    /\ pre.target_az = 4550 /\ pre.az = 1000
    /\ pc = "idle" /\ ret = RIG_OK
    /\ written = <<SetCmd(4550, 18000)>>

CMD_PARK ==
    <<"s", "e", "t", "a", "z", "0", "0", "0", ".", "0", "0", ";",
      "s", "e", "t", "e", "l", "0", "0", "0", ".", "0", "0", ";">>

\* C10: park always writes setaz000.00;setel000.00; whatever the state and
\* the outcome of the calls before, so two parks in a row write the same string
C10_ParkCommand ==
    (op = "park" /\ pc # "idle")
        => /\ cmdstr = CMD_PARK
           /\ \A i \in 1..Len(written) : written[i] = CMD_PARK


\* C11: a failed write_block is the last port call of the entry point's call:
\* it follows the flush of its attempt, no read and no further flush or write
\* comes after it, hambits_transaction returns -RIG_EIO, and retry_read was
\* not incremented at that attempt
C11_WriteFailureEndsTransaction ==
    /\ \A i \in DOMAIN io :
          io[i] = "write_failed"
              => (i = Len(io) /\ i > 1 /\ io[i - 1] = "flush")
    /\ (io # <<>> /\ Last(io) = "write_failed")
          => /\ pc \in {"return", "idle"}
             /\ return_value = NEG_RIG_EIO
             /\ pc = "return" => retry_read = attempts - 1

C11_Witness ==
    /\ pc = "return"
    /\ fn = "set_position"
    /\ return_value = NEG_RIG_EIO
    /\ io = <<"flush", "write_failed">>
    /\ reads = <<>>

\* the entry points that run one reply-wanting transaction
PositionOps == SetOps \cup {"get_position"}

\* C12: when the transaction of a hambits_set_position or a
\* hambits_get_position returned an error, the entry point does not return
\* RIG_OK
C12_FailedTransactionIsAnError ==
    (pc = "idle" /\ op \in PositionOps /\ io # <<>> /\ return_value # RIG_OK)
        => ret # RIG_OK

\* C13: hambits_move with a direction that is none of up, down, ccw and cw
\* returns -RIG_EINVAL, makes no port call and leaves the current and the
\* target position as they were
C13_MoveOtherDirection ==
    (pc = "idle" /\ op = "move" /\ direction = ROT_MOVE_OTHER)
        => /\ ret = NEG_RIG_EINVAL
           /\ io = <<>>
           /\ written = <<>>
           /\ reads = <<>>
           /\ PrivState = pre

C13_Witness ==
    /\ pc = "idle"
    /\ op = "move"
    /\ direction = ROT_MOVE_OTHER
    /\ ret = NEG_RIG_EINVAL
    /\ target_az = 4550
    /\ az = 4550

\* the functions that call hambits_transaction without a buffer
NoReplyCallers == {"transaction", "stop", "close"}

C15_FlushWriteRead ==
    /\ \A i \in DOMAIN io :
          /\ io[i] \in {"write", "write_failed"}
                => (i > 1 /\ io[i - 1] = "flush")
          /\ io[i] = "read"
                => /\ i > 1
                   /\ \/ io[i - 1] = "write"
                      \/ io[i - 1] = "flush" /\ cmdstr = NULL
                                             /\ fn = "transaction"
    /\ pc = "write" => (io # <<>> /\ Last(io) = "flush")
    /\ pc = "read" => (io # <<>> /\ Last(io) \in {"flush", "write"})

C15_Witness ==
    /\ pc = "return"
    /\ fn = "get_position"
    /\ op = "stop"
    /\ io = <<"flush", "write", "flush", "write", "read">>
    /\ reads = <<GETPOS_REPLY_LEN>>

\* hambits_transaction has been called and has not returned
TransactionRunning == pc \in {"flush", "write", "read"}

\* C16: a transaction never makes more than retry attempts, and every
\* transaction that was started returns
C16_TransactionTerminates ==
    /\ [](attempts <= retry)
    /\ TransactionRunning ~> (pc = "return")

C16_Witness ==
    /\ pc = "return"
    /\ data
    /\ port.tmo = MaxTimeouts
    /\ attempts >= 1
    /\ reads # <<>>
    /\ Last(reads) = READ_TIMEOUT

\* a call of hambits_set_position, directly or by park, reset or move
SetPositionCalled ==
    op \in SetOps /\ ~(op = "move" /\ direction = ROT_MOVE_OTHER)

\* hambits_set_position has returned an error
SetPositionFailed == pc = "idle" /\ SetPositionCalled /\ ret # RIG_OK

\* C17: from the start of its transaction on and after it returned, with an
\* error too, hambits_set_position(az, el) leaves the target position at
\* (az, el) and the current position as it was; a hambits_move called after a
\* hambits_set_position that returned an error holds the axis it does not
\* move at that call's az or el
C17_TargetNotRolledBack ==
    /\ [](SetPositionCalled
            => /\ target_az = arg_az
               /\ target_el = arg_el
               /\ az = pre.az
               /\ el = pre.el)
    /\ [][(SetPositionFailed /\ op' = "move" /\ pc' # "idle")
            => /\ direction' \in {ROT_MOVE_UP, ROT_MOVE_DOWN}
                    => arg_az' = arg_az
               /\ direction' \in {ROT_MOVE_CCW, ROT_MOVE_CW}
                    => arg_el' = arg_el]_vars

C17_Witness ==
    /\ pc = "idle"
    /\ op = "set_position"
    /\ ret = RIG_EINVAL
    /\ arg_az = 4550
    /\ arg_el = 9025
    /\ target_az = 4550
    /\ target_el = 9025
    /\ pre.target_az = 36000
    /\ az = 0

\* C18: from the call of hambits_get_position to after its return, with
\* RIG_OK or with an error, the current and the target position are what they
\* were when it was called
C18_GetPositionKeepsState ==
    op = "get_position" => PrivState = pre

C18_Witness ==
    /\ pc = "idle"
    /\ op = "get_position"
    /\ ret = RIG_OK
    /\ out_az = 4550
    /\ out_el = 9025
    /\ az = 0
    /\ target_az = 36000

\* hambits_stop has returned
StopReturned == pc = "idle" /\ op = "stop"

\* C19: hambits_stop returns RIG_EINVAL when one of its two transactions
\* returned an error; when the write of stop; failed it does not send getpos;
\* and when it returns an error the current and the target position are what
\* they were when it was called
C19_StopErrors ==
    StopReturned
        => /\ return_value # RIG_OK => ret = RIG_EINVAL
           /\ io = <<"flush", "write_failed">> => written = <<>>
           /\ ret # RIG_OK => PrivState = pre

\* C20: the reply a transaction returns to its caller is the device's answer
\* to the command written in the attempt that read it: it holds no input that
\* was at the port before that answer
C20_ReplyAnswersThisCommand ==
    (pc = "return" /\ data /\ io # <<>> /\ Last(io) = "read"
        /\ Last(reads) >= 0)
        => ~stale

=============================================================================
